---- MODULE Spec2Model ----
(***************************************************************************)
(* fuocore.player: the Playlist cursor logic and the MpvPlayer that plays  *)
(* the playlist's current song.  An operation of the program is a chain of *)
(* synchronous calls (setter -> song_changed -> _on_song_changed -> play), *)
(* so every method is an operator from machine state to machine state and  *)
(* every action applies one whole public operation or backend callback.    *)
(***************************************************************************)
EXTENDS Integers, Sequences, FiniteSets, TLC

\* ------------------------------------------------------------- bounds
\* longest playlist explored (insertions are cut off beyond it)
MaxLen == 3
\* how far below 0 and above 100 the written volumes range
VolSlack == 5

\* ------------------------------------------------------------- values
Song(k) == [kind |-> "song", id |-> k]
\* a bare Python int stored where a song is expected
IntObj(i) == [kind |-> "int", id |-> i]
None == [kind |-> "none", id |-> 0]
Url(s) == [kind |-> "url", id |-> s.id]

Songs == {Song(1), Song(2), Song(3)}

\* _current_index / _last_index holding None
NoIndex == -1

PlaybackModes == {"one_loop", "sequential", "loop", "random"}
States == {"stopped", "paused", "playing"}

VARIABLES
    songs,          \* Playlist._songs
    current_index,  \* Playlist._current_index (NoIndex for None)
    last_index,     \* Playlist._last_index  (NoIndex for None)
    playback_mode,  \* Playlist._playback_mode
    state,          \* AbstractPlayer._state
    volume,         \* AbstractPlayer._volume
    initialized,    \* initialize() has run: backend callbacks and song_finished wired
    mpv_pause,      \* backend pause property
    mpv_volume,     \* backend volume property
    mpv_idle,       \* backend has no media loaded
    mpv_abort,      \* an END_FILE(ABORTED) of a superseded load is in flight
    p2,             \* a second Playlist instance, made by the player's caller
    owner,          \* the Playlist AbstractPlayer._playlist refers to: 1 or 2
    race,           \* a caller thread and the backend's event thread, mid-operation
    op,             \* the operation that produced this state
    arg,            \* its argument
    pre,            \* songs and cursor before it
    trace,          \* signals emitted and backend requests issued by it, in order
    exc             \* the exception it raised, "" if none

plVars == <<songs, current_index, last_index, playback_mode>>
playerVars == <<state, volume, initialized>>
mpvVars == <<mpv_pause, mpv_volume, mpv_idle, mpv_abort>>
opVars == <<op, arg, pre, trace, exc>>
vars == <<plVars, playerVars, mpvVars, p2, owner, race, opVars>>

\* ------------------------------------------------------ Python lists
Contains(seq, x) == \E i \in 1..Len(seq) : seq[i] = x

\* list.index(x): 0-based position of the first occurrence
IndexOf(seq, x) ==
    (CHOOSE i \in 1..Len(seq) : seq[i] = x /\ \A j \in 1..(i - 1) : seq[j] # x) - 1

\* list.insert(i, x) for i >= 0: positions past the end append
PyInsert(seq, i, x) ==
    LET k == IF i > Len(seq) THEN Len(seq) ELSE i
    IN  SubSeq(seq, 1, k) \o <<x>> \o SubSeq(seq, k + 1, Len(seq))

\* list.remove(x) of a present x: drops the first occurrence
PyRemove(seq, x) ==
    LET k == IndexOf(seq, x) + 1
    IN  SubSeq(seq, 1, k - 1) \o SubSeq(seq, k + 1, Len(seq))

\* seq[i] for a Python index i (negative counts from the end); valid iff
\* -len <= i < len
PyValidIndex(seq, i) == -Len(seq) <= i /\ i < Len(seq)
PyGet(seq, i) == IF i < 0 THEN seq[Len(seq) + i + 1] ELSE seq[i + 1]

\* ------------------------------------------------- machine state
\* the list object that `songs=[]` in Playlist.__init__'s signature creates,
\* once, when the def statement runs; a caller's own list is another object
DefaultList == 0
CallerList == 1

\* the list object a Playlist made with this songs argument keeps as _songs
init_songs(songs_arg) == songs_arg

\* the second Playlist's _songs is the very list of the player's first
\* Playlist, which MpvPlayer.__init__ makes with Playlist()
SameList == p2.made /\ p2.list = init_songs(DefaultList)

\* the machine as the methods of the player's first Playlist see it: the
\* playlist's own fields, the player, the backend, and what relates the
\* playlist to the player (does the player own it, does _on_song_changed
\* listen to it) and to the other Playlist
Machine ==
    [songs |-> songs, current_index |-> current_index, last_index |-> last_index,
     playback_mode |-> playback_mode,
     state |-> state, volume |-> volume, initialized |-> initialized,
     mpv_pause |-> mpv_pause, mpv_volume |-> mpv_volume,
     mpv_idle |-> mpv_idle, mpv_abort |-> mpv_abort,
     owns |-> (owner = 1), connected |-> TRUE, aliased |-> SameList,
     other |-> [songs |-> p2.songs, current_index |-> p2.current_index],
     trace |-> <<>>, exc |-> ""]

\* the machine as the methods of the second Playlist see it
Machine2 ==
    [Machine EXCEPT !.songs = p2.songs, !.current_index = p2.current_index,
                    !.last_index = NoIndex, !.playback_mode = "loop",
                    !.owns = (owner = 2), !.connected = FALSE,
                    !.other = [songs |-> songs, current_index |-> current_index]]

Log(M, e, s) == [M EXCEPT !.trace = Append(@, [ev |-> e, song |-> s])]
Raise(M, e) == [M EXCEPT !.exc = e]

\* Signal.emit of a signal no method of the player listens to
Emit(M, sig) == Log(M, sig, None)

\* ------------------------------------------------------- the backend
\* MPV.playlist_clear()
mpv_playlist_clear(M) == Log(M, "mpv.playlist_clear", None)

\* MPV.play(url): loading over loaded media supersedes it, and the backend
\* reports the superseded media's end with reason ABORTED
mpv_play(M, url) ==
    [Log(M, "mpv.play", url) EXCEPT !.mpv_abort = @ \/ ~M.mpv_idle,
                                    !.mpv_idle = FALSE]

\* MPV.stop()
mpv_stop(M) ==
    [Log(M, "mpv.stop", None) EXCEPT !.mpv_abort = @ \/ ~M.mpv_idle,
                                     !.mpv_idle = TRUE]

\* ------------------------------------------------------- AbstractPlayer
\* state.setter
set_state(M, value) == Emit([M EXCEPT !.state = value], "state_changed")

\* the clamp without its upper limit
clamp_volume_no_upper(value) == IF value < 0 THEN 0 ELSE value

\* volume.setter of AbstractPlayer: the clamp
clamp_volume(value) ==
    LET v1 == IF value < 0 THEN 0 ELSE value
    IN  IF v1 > 100 THEN 100 ELSE v1

abstract_set_volume(M, value) == [M EXCEPT !.volume = clamp_volume(value)]

\* volume.setter of MpvPlayer
set_volume(M, value) ==
    LET M1 == abstract_set_volume(M, value)
    IN  [Log(M1, "mpv.volume", IntObj(M1.volume)) EXCEPT !.mpv_volume = M1.volume]

\* ------------------------------------------------------- MpvPlayer.play
\* play without clearing the backend's playlist first
play_without_clear(M, url) ==
    Emit(set_state(mpv_play(M, url), "playing"), "media_changed")

play(M, url) ==
    LET M1 == mpv_playlist_clear(M)
        M2 == mpv_play(M1, url)
        M3 == set_state(M2, "playing")
    IN  Emit(M3, "media_changed")

\* ------------------------------------------------------- Playlist
\* the current_song getter would raise IndexError
Dangling(M) == M.current_index # NoIndex /\ M.current_index >= Len(M.songs)

\* current_song getter, where it does not raise
current_song(M) ==
    IF M.current_index = NoIndex THEN None ELSE M.songs[M.current_index + 1]

\* self._playlist of the player, seen from the playlist M is about
owned_playlist(M) ==
    IF M.owns THEN [songs |-> M.songs, current_index |-> M.current_index]
    ELSE [songs |-> IF M.aliased THEN M.songs ELSE M.other.songs,
          current_index |-> M.other.current_index]

\* MpvPlayer._on_song_changed (an int has no url attribute)
on_song_changed(M) ==
    LET P == owned_playlist(M)
    IN  IF Dangling(P) THEN Raise(M, "IndexError")
        ELSE IF current_song(P) = None THEN M
        ELSE IF current_song(P).kind # "song" THEN Raise(M, "AttributeError")
        ELSE play(M, Url(current_song(P)))

\* Signal.emit keeps a listener's exception to itself: the emitter goes on
Isolate(M, M1) ==
    IF M1.exc # M.exc THEN Log([M1 EXCEPT !.exc = M.exc], "listener_fault", None)
    ELSE M1

\* Playlist.song_changed.emit(): _on_song_changed is the one listener, and
\* MpvPlayer.__init__ connects it to the Playlist it makes there
emit_song_changed(M) ==
    IF M.connected
    THEN Isolate(M, on_song_changed(Log(M, "song_changed", None)))
    ELSE Log(M, "song_changed", None)

\* current_song.setter.  _last_song is written here and read nowhere in the
\* program, so the write is kept in the trace and not as a variable.
set_current_song(M, song) ==
    IF Dangling(M) THEN Raise(M, "IndexError")
    ELSE
    LET M1 == Log(M, "_last_song=", current_song(M))
    IN  IF song = None
        THEN [M1 EXCEPT !.current_index = NoIndex]
        ELSE
        LET present == Contains(M1.songs, song)
            index == IF present THEN IndexOf(M1.songs, song)
                     ELSE IF M1.current_index = NoIndex THEN 0
                     ELSE M1.current_index + 1
            M2 == IF present THEN M1
                  ELSE [M1 EXCEPT !.songs = PyInsert(@, index, song)]
        IN  emit_song_changed([M2 EXCEPT !.current_index = index])

\* the membership test of add left out
add_never_present(M, song) == FALSE

\* Playlist.add: is the song already there
add_present(M, song) == Contains(M.songs, song)

\* Playlist.add
add(M, song) ==
    IF add_present(M, song) THEN M
    ELSE IF M.current_index = NoIndex
         THEN [M EXCEPT !.songs = Append(@, song)]
         ELSE [M EXCEPT !.songs = PyInsert(@, M.current_index + 1, song)]

\* Playlist.remove: list.remove raises ValueError for an absent song
remove(M, song) ==
    IF Contains(M.songs, song)
    THEN [M EXCEPT !.songs = PyRemove(@, song)]
    ELSE Raise(M, "ValueError")

\* playback_mode.setter
set_playback_mode(M, mode) ==
    Emit([M EXCEPT !.playback_mode = mode], "playback_mode_changed")

\* the last-song test with the length itself for the last index
at_last_off_by_one(M) == M.current_index = Len(M.songs)

\* the cursor is on the last song
at_last(M) == M.current_index = Len(M.songs) - 1

\* what next() assigns in random mode: random.choice(range(0, len(songs)))
\* is the drawn number itself, not the song at that index
random_pick(M, r) == IntObj(r)

\* Playlist.next with Sequential wrapping at the end as the loop modes do
next_sequential_wraps(M, r) ==
    IF M.songs = <<>> THEN M
    ELSE IF Dangling(M) THEN Raise(M, "IndexError")
    ELSE IF current_song(M) = None THEN set_current_song(M, M.songs[1])
    ELSE IF M.playback_mode = "random" THEN set_current_song(M, random_pick(M, r))
    ELSE IF at_last(M) THEN set_current_song(M, M.songs[1])
    ELSE set_current_song(M, M.songs[M.current_index + 2])

\* Playlist.next; r is the number random.choice draws
next(M, r) ==
    IF M.songs = <<>> THEN M
    ELSE IF Dangling(M) THEN Raise(M, "IndexError")
    ELSE IF current_song(M) = None THEN set_current_song(M, M.songs[1])
    ELSE IF M.playback_mode = "random" THEN set_current_song(M, random_pick(M, r))
    ELSE IF M.playback_mode \in {"one_loop", "loop"} /\ at_last(M)
         THEN set_current_song(M, M.songs[1])
    ELSE IF M.playback_mode = "sequential" /\ at_last(M)
         THEN set_current_song(M, None)
    ELSE IF PyValidIndex(M.songs, M.current_index + 1)
         THEN set_current_song(M, PyGet(M.songs, M.current_index + 1))
         ELSE Raise(M, "IndexError")

\* Playlist.previous stopping at the first song instead of wrapping
previous_stops_at_first(M, r) ==
    IF M.songs = <<>> THEN M
    ELSE IF M.current_index = NoIndex THEN set_current_song(M, M.songs[1])
    ELSE LET index == IF M.playback_mode = "random" THEN r
                      ELSE IF M.current_index = 0 THEN 0
                      ELSE M.current_index - 1
         IN  IF PyValidIndex(M.songs, index)
             THEN set_current_song(M, PyGet(M.songs, index))
             ELSE Raise(M, "IndexError")

\* Playlist.previous; r is the number random.choice draws
previous(M, r) ==
    IF M.songs = <<>> THEN M
    ELSE IF M.last_index # NoIndex
         THEN IF PyValidIndex(M.songs, M.last_index)
              THEN set_current_song(M, PyGet(M.songs, M.last_index))
              ELSE Raise(M, "IndexError")
    ELSE IF M.current_index = NoIndex THEN set_current_song(M, M.songs[1])
    ELSE LET index == IF M.playback_mode = "random" THEN r
                      ELSE M.current_index - 1
         IN  IF PyValidIndex(M.songs, index)
             THEN set_current_song(M, PyGet(M.songs, index))
             ELSE Raise(M, "IndexError")

\* the numbers random.choice(range(0, len(songs))) can draw
RandomDraws == IF playback_mode = "random" /\ songs # <<>>
               THEN 0..(Len(songs) - 1) ELSE {0}

\* ------------------------------------------------------- MpvPlayer
\* MpvPlayer.initialize
initialize(M) == [M EXCEPT !.initialized = TRUE]

\* MpvPlayer.play_song: the guard
same_as_current(M, song) == current_song(M) # None /\ current_song(M) = song

\* MpvPlayer.play_song
play_song(M, song) ==
    IF Dangling(M) THEN Raise(M, "IndexError")
    ELSE IF same_as_current(M, song) THEN M
    ELSE LET M1 == set_current_song(M, song)
         IN  IF M1.exc # "" THEN M1 ELSE play(M1, Url(song))

\* MpvPlayer.resume
resume(M) == set_state([Log(M, "mpv.pause=False", None) EXCEPT !.mpv_pause = FALSE],
                       "playing")

\* MpvPlayer.pause
pause(M) == set_state([Log(M, "mpv.pause=True", None) EXCEPT !.mpv_pause = TRUE],
                      "paused")

\* MpvPlayer.toggle
toggle(M) ==
    LET M1 == [Log(M, "mpv.pause=not", None) EXCEPT !.mpv_pause = ~M.mpv_pause]
    IN  IF M1.mpv_pause THEN set_state(M1, "paused") ELSE set_state(M1, "playing")

\* MpvPlayer.stop
stop(M) == set_state(mpv_stop(M), "stopped")

\* player.song_finished.emit(): Playlist.next is its listener once
\* initialize() has connected it
emit_song_finished(M, r) ==
    LET M1 == Log(M, "song_finished", None)
    IN  IF M1.initialized THEN Isolate(M1, next(Log(M1, "call next", None), r))
        ELSE M1

\* every END_FILE event taken for a finished song, whatever its reason
finished_any_reason(reason) == TRUE

\* does an END_FILE event with this reason announce a finished song
finished(reason) == reason # "aborted"

\* MpvPlayer._on_event for an END_FILE event
on_event(M, reason, r) ==
    IF finished(reason) THEN emit_song_finished(M, r) ELSE M

\* ------------------------------------------------------- threads
\* a thread that is in none of the program's methods
IdleThread == [pc |-> "idle", song |-> None, index |-> NoIndex]

\* no thread is inside a method
NoRace == [caller |-> IdleThread, backend |-> IdleThread, start |-> <<>>]

\* Playlist.next up to its call of the setter: what it hands to the setter
next_target(M, r) ==
    IF M.songs = <<>> THEN [call |-> FALSE, song |-> None]
    ELSE IF current_song(M) = None THEN [call |-> TRUE, song |-> M.songs[1]]
    ELSE IF M.playback_mode = "random" THEN [call |-> TRUE, song |-> random_pick(M, r)]
    ELSE IF M.playback_mode \in {"one_loop", "loop"} /\ at_last(M)
    THEN [call |-> TRUE, song |-> M.songs[1]]
    ELSE IF M.playback_mode = "sequential" /\ at_last(M)
    THEN [call |-> TRUE, song |-> None]
    ELSE [call |-> TRUE, song |-> PyGet(M.songs, M.current_index + 1)]

\* the next statements of thread t, run without a switch to the other thread:
\*   select  _on_event, song_finished.emit and next up to its setter call
\*   test    the setter's lines 100 to 113: the song to insert or its index
\*   insert  line 114
\*   assign  line 115
\*   emit    line 116 with the listener it calls
thread_step(M, t, r) ==
    CASE t.pc = "select" ->
           LET M1 == Log(Log(M, "song_finished", None), "call next", None)
               n == next_target(M1, r)
           IN  IF M1.songs # <<>> /\ Dangling(M1)
               THEN [M |-> Raise(M1, "IndexError"), t |-> [t EXCEPT !.pc = "done"]]
               ELSE IF ~n.call THEN [M |-> M1, t |-> [t EXCEPT !.pc = "done"]]
               ELSE [M |-> M1, t |-> [t EXCEPT !.pc = "test", !.song = n.song]]
      [] t.pc = "test" ->
           IF Dangling(M)
           THEN [M |-> Raise(M, "IndexError"), t |-> [t EXCEPT !.pc = "done"]]
           ELSE
           LET M1 == Log(M, "_last_song=", current_song(M))
           IN  IF t.song = None
               THEN [M |-> [M1 EXCEPT !.current_index = NoIndex],
                     t |-> [t EXCEPT !.pc = "done"]]
               ELSE IF Contains(M1.songs, t.song)
               THEN [M |-> M1, t |-> [t EXCEPT !.pc = "assign",
                                               !.index = IndexOf(M1.songs, t.song)]]
               ELSE [M |-> M1,
                     t |-> [t EXCEPT !.pc = "insert",
                                     !.index = IF M1.current_index = NoIndex THEN 0
                                               ELSE M1.current_index + 1]]
      [] t.pc = "insert" ->
           [M |-> [M EXCEPT !.songs = PyInsert(@, t.index, t.song)],
            t |-> [t EXCEPT !.pc = "assign"]]
      [] t.pc = "assign" ->
           [M |-> [M EXCEPT !.current_index = t.index], t |-> [t EXCEPT !.pc = "emit"]]
      [] t.pc = "emit" ->
           [M |-> emit_song_changed(M), t |-> [t EXCEPT !.pc = "done"]]

\* ------------------------------------------------------- actions
Init ==
    /\ race = NoRace
    /\ songs = <<>>
    /\ current_index = NoIndex
    /\ last_index = NoIndex
    /\ playback_mode = "loop"
    /\ state = "stopped"
    /\ volume = 100
    /\ initialized = FALSE
    /\ mpv_pause = FALSE
    /\ mpv_volume = 100
    /\ mpv_idle = TRUE
    /\ mpv_abort = FALSE
    /\ p2 = [made |-> FALSE, list |-> DefaultList, songs |-> <<>>,
             current_index |-> NoIndex]
    /\ owner = 1
    /\ op = "init"
    /\ arg = None
    /\ pre = [songs |-> <<>>, current_index |-> NoIndex]
    /\ trace = <<>>
    /\ exc = ""

\* the player, backend and bookkeeping part of the state after operation
\* o(a) took the machine to M
CommitPlayer(M, o, a) ==
    /\ Len(M.songs) <= MaxLen
    /\ state' = M.state
    /\ volume' = M.volume
    /\ initialized' = M.initialized
    /\ mpv_pause' = M.mpv_pause
    /\ mpv_volume' = M.mpv_volume
    /\ mpv_idle' = M.mpv_idle
    /\ mpv_abort' = M.mpv_abort
    /\ owner' = owner
    /\ op' = o
    /\ arg' = a
    /\ trace' = M.trace
    /\ exc' = M.exc

\* the state after operation o(a) on the player's first Playlist, or on the
\* player owning it, took the machine to M
Commit(M, o, a) ==
    /\ CommitPlayer(M, o, a)
    /\ songs' = M.songs
    /\ current_index' = M.current_index
    /\ last_index' = M.last_index
    /\ playback_mode' = M.playback_mode
    /\ p2' = IF SameList THEN [p2 EXCEPT !.songs = M.songs] ELSE p2
    /\ race' = race
    /\ pre' = [songs |-> songs, current_index |-> current_index]

\* the state after one thread ran its next statements and took the machine to
\* M and the threads to rc
CommitRace(M, o, a, rc) ==
    /\ CommitPlayer(M, o, a)
    /\ songs' = M.songs
    /\ current_index' = M.current_index
    /\ last_index' = M.last_index
    /\ playback_mode' = M.playback_mode
    /\ p2' = IF SameList THEN [p2 EXCEPT !.songs = M.songs] ELSE p2
    /\ race' = rc
    /\ pre' = [songs |-> songs, current_index |-> current_index]

\* the state after operation o(a) on the second Playlist, or on the player
\* owning it, took the machine to M
Commit2(M, o, a) ==
    /\ CommitPlayer(M, o, a)
    /\ p2' = [p2 EXCEPT !.songs = M.songs, !.current_index = M.current_index]
    /\ songs' = IF SameList THEN M.songs ELSE songs
    /\ UNCHANGED <<current_index, last_index, playback_mode, race>>
    /\ pre' = [songs |-> p2.songs, current_index |-> p2.current_index]

\* what a caller may hand to remove(): a song, or anything the list holds
Removable == Songs \cup {songs[i] : i \in 1..Len(songs)}

Add(s) == Commit(add(Machine, s), "add", s)
Remove(s) == Commit(remove(Machine, s), "remove", s)
SetCurrentSong(s) == Commit(set_current_song(Machine, s), "set_current_song", s)
SetPlaybackMode(m) ==
    /\ m # playback_mode
    /\ Commit(set_playback_mode(Machine, m), "set_playback_mode", None)
PlNext(r) == Commit(next(Machine, r), "next", IntObj(r))
PlPrevious(r) == Commit(previous(Machine, r), "previous", IntObj(r))

Initialize ==
    /\ ~initialized
    /\ Commit(initialize(Machine), "initialize", None)
Play(s) == Commit(play(Machine, Url(s)), "play", s)
PlaySong(s) ==
    IF owner = 1 THEN Commit(play_song(Machine, s), "play_song", s)
    ELSE Commit2(play_song(Machine2, s), "play_song", s)

\* the caller makes a second Playlist: Playlist() or Playlist(a list of its own)
NewPlaylist(songs_arg) ==
    /\ ~p2.made
    /\ p2' = [made |-> TRUE, list |-> init_songs(songs_arg),
              songs |-> IF init_songs(songs_arg) = DefaultList THEN songs ELSE <<>>,
              current_index |-> NoIndex]
    /\ op' = "new_playlist"
    /\ arg' = None
    /\ pre' = [songs |-> songs, current_index |-> current_index]
    /\ trace' = <<>>
    /\ exc' = ""
    /\ UNCHANGED <<plVars, playerVars, mpvVars, owner, race>>

\* playlist.setter of AbstractPlayer, handed the second Playlist
SetPlaylist ==
    /\ p2.made
    /\ initialized
    /\ owner = 1
    /\ owner' = 2
    /\ op' = "set_playlist"
    /\ arg' = None
    /\ pre' = [songs |-> songs, current_index |-> current_index]
    /\ trace' = <<>>
    /\ exc' = ""
    /\ UNCHANGED <<plVars, playerVars, mpvVars, p2, race>>

P2Add(s) == p2.made /\ Commit2(add(Machine2, s), "p2_add", s)
P2Remove(s) == p2.made /\ Commit2(remove(Machine2, s), "p2_remove", s)
P2SetCurrentSong(s) ==
    p2.made /\ Commit2(set_current_song(Machine2, s), "p2_set_current_song", s)
Resume == Commit(resume(Machine), "resume", None)
Pause == Commit(pause(Machine), "pause", None)
Toggle == Commit(toggle(Machine), "toggle", None)
Stop == Commit(stop(Machine), "stop", None)
SetVolume(v) == Commit(set_volume(Machine, v), "set_volume", IntObj(v))

\* the backend reports that the loaded media played to its end
EndFileEof(r) ==
    /\ initialized
    /\ ~mpv_idle
    /\ Commit(on_event([Machine EXCEPT !.mpv_idle = TRUE], "eof", r),
              "end_file_eof", IntObj(r))

\* the backend reports the end of media that a later request superseded
EndFileAborted ==
    /\ initialized
    /\ mpv_abort
    /\ Commit(on_event([Machine EXCEPT !.mpv_abort = FALSE], "aborted", 0),
              "end_file_aborted", None)

\* is a thread inside a method
Racing == race # NoRace

\* the caller's thread enters playlist.current_song = s while the backend's
\* event thread enters _on_event with an END_FILE of media that played to
\* its end
StartRace(s) ==
    /\ ~Racing
    /\ initialized
    /\ ~mpv_idle
    /\ LET M == [Machine EXCEPT !.mpv_idle = TRUE]
       IN  CommitRace(M, "start_race", s,
                      [caller |-> [IdleThread EXCEPT !.pc = "test", !.song = s],
                       backend |-> [IdleThread EXCEPT !.pc = "select"],
                       start |-> <<M>>])

\* the caller's thread runs its next statements
CallerStep ==
    /\ race.caller.pc \notin {"idle", "done"}
    /\ LET R == thread_step(Machine, race.caller, 0)
       IN  CommitRace(R.M, "caller_step", None, [race EXCEPT !.caller = R.t])

\* the backend's event thread runs its next statements
BackendStep ==
    /\ race.backend.pc \notin {"idle", "done"}
    /\ LET R == thread_step(Machine, race.backend, 0)
       IN  CommitRace(R.M, "backend_step", None, [race EXCEPT !.backend = R.t])

\* have both threads returned
RaceOver == race.caller.pc = "done" /\ race.backend.pc = "done"

\* both threads are back outside the program's methods
EndRace ==
    /\ RaceOver
    /\ CommitRace(Machine, "end_race", None, NoRace)

\* ------------------------------------------------ specifications
\* the playlist driven directly by its caller
PlaylistNext ==
    \/ \E s \in Songs : Add(s)
    \/ \E s \in Removable : Remove(s)
    \/ \E s \in Songs \cup {None} : SetCurrentSong(s)
    \/ \E m \in PlaybackModes : SetPlaybackMode(m)
    \/ \E r \in RandomDraws : PlNext(r)
    \/ \E r \in RandomDraws : PlPrevious(r)

SpecPlaylist == Init /\ [][PlaylistNext]_vars

\* the modes the player's specification sets
PlayerModes == {"one_loop", "sequential", "loop"}

\* the player, its backend's events, and the playlist it owns
Next ==
    \/ Initialize
    \/ \E s \in Songs : Play(s)
    \/ \E s \in Songs : PlaySong(s)
    \/ Resume
    \/ Pause
    \/ Toggle
    \/ Stop
    \/ \E r \in RandomDraws : EndFileEof(r)
    \/ EndFileAborted
    \/ \E s \in Songs : Add(s)
    \/ \E s \in Removable : Remove(s)
    \/ \E m \in PlayerModes : SetPlaybackMode(m)
    \/ \E s \in Songs \cup {None} : SetCurrentSong(s)
    \/ \E r \in RandomDraws : PlNext(r)
    \/ \E r \in RandomDraws : PlPrevious(r)

Spec == Init /\ [][Next]_vars

\* the player fed by its backend's events in every playback mode
EventsNext ==
    \/ Initialize
    \/ \E s \in Songs : PlaySong(s)
    \/ \E s \in Songs : Add(s)
    \/ \E m \in PlaybackModes : SetPlaybackMode(m)
    \/ \E r \in RandomDraws : EndFileEof(r)
    \/ EndFileAborted

SpecEvents == Init /\ [][EventsNext]_vars

\* the songs handed to the two playlists
TwoSongs == {Song(1), Song(2)}

\* the player, its first Playlist and a second one that may replace it
TwoNext ==
    \/ Initialize
    \/ \E l \in {DefaultList, CallerList} : NewPlaylist(l)
    \/ SetPlaylist
    \/ \E s \in TwoSongs : PlaySong(s)
    \/ \E s \in TwoSongs : Add(s)
    \/ \E s \in TwoSongs : Remove(s)
    \/ \E s \in TwoSongs : SetCurrentSong(s)
    \/ \E s \in TwoSongs : P2Add(s)
    \/ \E s \in TwoSongs : P2Remove(s)
    \/ \E s \in TwoSongs : P2SetCurrentSong(s)
    \/ EndFileEof(0)

SpecTwo == Init /\ [][TwoNext]_vars

\* the caller's thread and the backend's event thread, no lock between them
RaceNext ==
    \/ ~Racing /\ Initialize
    \/ ~Racing /\ \E s \in Songs : PlaySong(s)
    \/ ~Racing /\ \E s \in Songs : Add(s)
    \/ ~Racing /\ \E m \in PlayerModes : SetPlaybackMode(m)
    \/ \E s \in Songs : StartRace(s)
    \/ CallerStep
    \/ BackendStep
    \/ EndRace

SpecRace == Init /\ [][RaceNext]_vars

\* volume writes alone
VolumeWrites == ((0 - VolSlack)..(100 + VolSlack)) \cup {150}

VolumeNext == \E v \in VolumeWrites : SetVolume(v)

SpecVolume == Init /\ [][VolumeNext]_vars

\* ------------------------------------------------ properties
\* how often event e occurs in a trace
Count(tr, e) == Cardinality({i \in 1..Len(tr) : tr[i].ev = e})

\* the cursor before the operation was on a song
PreHasCurrent == pre.current_index \in 0..(Len(pre.songs) - 1)

\* the current song before the operation
PreCurrent == IF PreHasCurrent THEN pre.songs[pre.current_index + 1] ELSE None

\* the cursor is on a song
HasCurrent == current_index \in 0..(Len(songs) - 1)

\* the machine states after 1, 2, ... k further next() calls
RECURSIVE NextRun(_, _)
NextRun(M, k) ==
    IF k = 0 THEN <<>>
    ELSE LET M1 == next([M EXCEPT !.trace = <<>>, !.exc = ""], 0)
         IN  <<M1>> \o NextRun(M1, k - 1)

\* C1: in Loop or OneLoop mode, from any playlist of n >= 1 songs with a
\* current song at index i, the k-th of n consecutive next() calls puts the
\* cursor on index (i + k) mod n: the successor each time, index 0 after
\* index n-1, every index once, back at i after n calls; the songs never change.
C1_LoopNextCycles ==
    (playback_mode \in {"loop", "one_loop"} /\ HasCurrent) =>
        LET n == Len(songs)
            run == NextRun(Machine, n)
        IN  \A k \in 1..n :
                /\ run[k].current_index = (current_index + k) % n
                /\ run[k].songs = songs

\* a next() call in a loop mode has just wrapped from the last of three songs
C1_Witness ==
    /\ op = "next"
    /\ playback_mode \in {"loop", "one_loop"}
    /\ Len(songs) = 3
    /\ pre.current_index = 2
    /\ current_index = 0

\* C2: in Sequential mode next() at the last index clears the current song,
\* the next() call right after it selects index 0, and next() at a lower
\* index selects the following index.
C2_SequentialNext ==
    (op = "next" /\ playback_mode = "sequential" /\ PreHasCurrent) =>
        /\ songs = pre.songs
        /\ IF pre.current_index = Len(pre.songs) - 1
           THEN /\ current_index = NoIndex
                /\ next(Machine, 0).current_index = 0
                /\ next(Machine, 0).songs = songs
           ELSE current_index = pre.current_index + 1

\* a Sequential next() on the last of several songs has cleared the current song
C2_Witness ==
    /\ op = "next"
    /\ playback_mode = "sequential"
    /\ Len(songs) >= 2
    /\ pre.current_index = Len(songs) - 1
    /\ current_index = NoIndex

\* a previous() call that follows an assignment of a song Y over a different
\* current song X lands on X
C3_PreviousStep ==
    (/\ op = "set_current_song"
     /\ PreHasCurrent
     /\ arg \in Songs
     /\ arg # PreCurrent
     /\ op' = "previous")
        => (current_index' # NoIndex /\ current_index' < Len(songs')
            /\ songs'[current_index' + 1] = PreCurrent)

\* C3: previous() right after one reassignment of current_song from a song X
\* to a different song Y makes X the current song again, in every mode and
\* wherever X and Y sit in the playlist.
C3_PreviousRestores == [][C3_PreviousStep]_vars

\* a second play_song(S) right after a first one that started from another
\* current song: one backend play request over both calls, nothing changed
\* by the second
C4_TwoCallsStep ==
    (/\ op = "play_song"
     /\ exc = ""
     /\ PreCurrent # arg
     /\ op' = "play_song"
     /\ arg' = arg)
        => /\ Count(trace, "mpv.play") + Count(trace', "mpv.play") = 1
           /\ trace' = <<>>
           /\ songs' = songs /\ current_index' = current_index /\ state' = state

\* C4: play_song(S) twice in a row, from a current song other than S, sends
\* the backend exactly one play request in all (direct or through
\* song_changed -> _on_song_changed -> play), and the second call changes
\* nothing.
C4_OneBackendPlay == [][C4_TwoCallsStep]_vars

\* C5: an END_FILE event with reason ABORTED emits no song_finished, runs no
\* Playlist.next() and leaves the cursor and the songs as they were; a
\* song_finished is emitted only for an END_FILE event with another reason.
C5_AbortedSuppressed ==
    /\ op = "end_file_aborted" =>
        /\ trace = <<>>
        /\ songs = pre.songs
        /\ current_index = pre.current_index
    /\ Count(trace, "song_finished") > 0 => op = "end_file_eof"

\* the aborted end of superseded media arrived while the player plays a song
C5_Witness ==
    /\ op = "end_file_aborted"
    /\ state = "playing"
    /\ HasCurrent
    /\ ~mpv_idle

\* C6: the cached volume is always within [0,100]; a write of v stores 0 for
\* v < 0, 100 for v > 100 and v otherwise, and the backend is handed the
\* stored value.
C6_VolumeClamped ==
    /\ volume \in 0..100
    /\ op = "set_volume" =>
        /\ arg.id < 0 => volume = 0
        /\ arg.id > 100 => volume = 100
        /\ arg.id \in 0..100 => volume = arg.id
        /\ mpv_volume = volume
        /\ trace = <<[ev |-> "mpv.volume", song |-> IntObj(volume)]>>

\* a write above 100 was stored as 100
C6_Witness == op = "set_volume" /\ arg.id > 100 /\ volume = 100

\* C7: a current_index that is not None is a valid index into songs.
C7_CursorValid == current_index # NoIndex => HasCurrent

\* C8: songs holds no element twice.
C8_NoDuplicates ==
    \A i, j \in 1..Len(songs) : i # j => songs[i] # songs[j]

\* add() of a song the playlist already holds has left the playlist alone
C8_Witness ==
    /\ op = "add"
    /\ Contains(pre.songs, arg)
    /\ Len(songs) >= 2
    /\ songs = pre.songs

\* C9: in Random mode next() on a playlist with a current song makes some
\* song of the playlist current and leaves the songs as they were.
C9_RandomNext ==
    (op = "next" /\ playback_mode = "random" /\ PreHasCurrent) =>
        /\ songs = pre.songs
        /\ HasCurrent
        /\ Contains(pre.songs, songs[current_index + 1])

\* C10: every run of the current_song setter that assigns (a song or None)
\* emits song_changed exactly once.
C10_SetterAlwaysEmits ==
    Count(trace, "_last_song=") = Count(trace, "song_changed")

\* C11: after every completed player operation or backend event handler,
\* state Playing implies that the playlist has a current song.
C11_PlayingHasSong == state = "playing" => current_index # NoIndex

\* C13: assigning current_song a song the playlist does not hold inserts it
\* at current_index + 1 (index 0 without a current song), makes that
\* position current and lengthens the playlist by exactly one, the songs
\* held before keeping their order.
C13_AssignAbsentInserts ==
    (op = "set_current_song" /\ arg \in Songs /\ ~Contains(pre.songs, arg)) =>
        LET at == IF pre.current_index = NoIndex THEN 0
                  ELSE pre.current_index + 1
        IN  /\ Len(songs) = Len(pre.songs) + 1
            /\ current_index = at
            /\ songs = PyInsert(pre.songs, at, arg)

\* the edges of the player's state machine
StateEdges ==
    {<<"stopped", "playing">>, <<"playing", "paused">>, <<"paused", "playing">>,
     <<"playing", "stopped">>, <<"paused", "stopped">>}

\* C15: state starts as Stopped and changes only along Stopped -> Playing,
\* Playing -> Paused, Paused -> Playing, Playing -> Stopped and
\* Paused -> Stopped; never from Stopped straight to Paused.
C15_StateMachine ==
    /\ state = "stopped"
    /\ [][state' # state => <<state, state'>> \in StateEdges]_vars

\* C16: every backend play request of an operation comes right after a
\* playlist_clear of the same play() call and is followed by the change of
\* state to Playing and then by media_changed; a play(url) call issues
\* exactly clear, play(url), state_changed, media_changed.
C16_ClearBeforePlay ==
    /\ \A i \in 1..Len(trace) :
          trace[i].ev = "mpv.play" =>
              /\ i > 1
              /\ trace[i - 1].ev = "mpv.playlist_clear"
              /\ i + 2 <= Len(trace)
              /\ trace[i + 1].ev = "state_changed"
              /\ trace[i + 2].ev = "media_changed"
              /\ state = "playing"
    /\ op = "play" =>
          /\ Len(trace) = 4
          /\ trace[2] = [ev |-> "mpv.play", song |-> Url(arg)]

\* a play(url) call on a player that was not playing has completed
C16_Witness ==
    /\ op = "play"
    /\ state = "playing"
    /\ Count(trace, "mpv.play") = 1
    /\ Count(trace, "mpv.playlist_clear") = 1

\* C19: state Playing implies the backend's pause flag is false and state
\* Paused implies it is true.
C19_NoPauseDrift ==
    /\ state = "playing" => ~mpv_pause
    /\ state = "paused" => mpv_pause

PlayRequests == SelectSeq(trace, LAMBDA e : e.ev = "mpv.play")

\* C14: once initialize() has run, a non-aborted END_FILE event emits
\* song_finished once and runs Playlist.next() once; the backend then gets
\* exactly one play request, for the new current song's url, when there is
\* a new current song, and none when next() cleared the current song.
C14_EndOfMediaAdvances ==
    op = "end_file_eof" =>
        /\ Count(trace, "song_finished") = 1
        /\ Count(trace, "call next") = 1
        /\ HasCurrent =>
              PlayRequests = <<[ev |-> "mpv.play", song |-> Url(songs[current_index + 1])]>>
        /\ current_index = NoIndex => PlayRequests = <<>>

\* one operation on either of two Playlists that were both made without a
\* songs argument
C17_IndependentStep ==
    (p2.made /\ p2.list = DefaultList) =>
        /\ op' \in {"p2_add", "p2_remove", "p2_set_current_song"} => songs' = songs
        /\ op' \in {"add", "remove", "set_current_song"} => p2'.songs = p2.songs

\* C17: two Playlists each constructed without a songs argument have
\* independent song sequences: add, remove or current_song assignment on one
\* leaves the other's songs and length unchanged.
C17_DefaultListsIndependent == [][C17_IndependentStep]_vars

\* one operation after the playlist setter handed the player the second
\* Playlist: the setter of the second Playlist, or an end of media that was
\* not aborted while the second Playlist has a current song
C18_LoopStep ==
    (owner = 2 /\ owner' = 2) =>
        /\ (op' = "p2_set_current_song" /\ exc' = "") =>
               PlayRequests' = <<[ev |-> "mpv.play", song |-> Url(arg')]>>
        /\ (op' = "end_file_eof"
                /\ p2.current_index \in 0..(Len(p2.songs) - 1)) =>
               /\ p2'.current_index = (p2.current_index + 1) % Len(p2.songs)
               /\ current_index' = current_index

\* C18: after the playlist setter replaced the player's playlist with a new
\* Playlist P2 (after initialize()), a current_song change on P2 triggers a
\* backend play of that song's URL, and a non-aborted end of media advances
\* P2, not the previously owned playlist.
C18_LoopFollowsReplacement == [][C18_LoopStep]_vars

\* the songs, the cursor and the player state of a machine
Core(M) == [songs |-> M.songs, current_index |-> M.current_index, state |-> M.state]

\* what the two operations of a race leave when one runs wholly before the other
SerialOutcomes ==
    LET M0 == race.start[1]
        s == race.caller.song
    IN  {Core(on_event(set_current_song(M0, s), "eof", 0)),
         Core(set_current_song(on_event(M0, "eof", 0), s))}

\* C12: mutations of Player and Playlist state are serialized: when the
\* backend's end-of-media handler and a caller's current_song assignment run
\* at the same time, the final playlist and player state is the result of one
\* of the two serial orders.
C12_Serialized == RaceOver => Core(Machine) \in SerialOutcomes

====
